---- MODULE Spec2Model ----
\* A model of aoc24/part2.py: the script reads hailstones "p @ v" from a file,
\* registers one sympy symbol per unknown (sx sy sz dx dy dz, then one time
\* symbol per hailstone), builds the meeting equations
\*     h.s[a] + h.d[a]*t_i - s_a - d_a*t_i          (= 0)
\* for every hailstone and axis, hands them to sympy.solve and reports the first
\* solution and the sum of its first three components.
EXTENDS Integers, Sequences, FiniteSets, TLC

\* ---------------------------------------------------------------- numbers
\* A number is written  big * 2^53 + lo  with |lo| far below 2^52: the pair
\* [big, lo] keeps values around the edge of the float mantissa exact inside
\* 32-bit model integers. Sums and differences are componentwise; a product is
\* taken only when at most one factor has a 2^53 part (velocities, directions
\* and times of the inputs and unknown domains below have none).

Num(b, l) == [big |-> b, lo |-> l]

I(n) == Num(0, n)

Zero == I(0)

NumAdd(a, b) == Num(a.big + b.big, a.lo + b.lo)

NumSub(a, b) == Num(a.big - b.big, a.lo - b.lo)

NumNeg(a) == Num(0 - a.big, 0 - a.lo)

NumMul(a, b) == Num(a.big * b.lo + a.lo * b.big, a.lo * b.lo)

\* float(token) of a decimal integer token (lines 54-55): an IEEE double holds
\* 53 significant bits, so every integer of magnitude below 2^53 is kept, and
\* an integer in [2^53, 2^54) is rounded to a multiple of 2, a tie going to the
\* even mantissa.
FloatPos(n) ==
    IF n.big = 0 \/ n.lo < 0 \/ n.lo % 2 = 0 THEN n
    ELSE IF ((n.lo - 1) \div 2) % 2 = 0 THEN Num(n.big, n.lo - 1)
         ELSE Num(n.big, n.lo + 1)

Float(n) ==
    IF n.big >= 0 THEN FloatPos(n) ELSE NumNeg(FloatPos(NumNeg(n)))

\* ---------------------------------------------------------------- bounds
\* The unknowns of sympy.solve range over the rationals; the model looks for
\* the solutions whose components lie in these windows.
TMax == 6

DMax == 3

SMax == 40

TDomain == {I(t) : t \in 0..TMax}

DDomain == {I(d) : d \in (0 - DMax)..DMax}

SDomain == {Num(b, l) : b \in {0, 1}, l \in (0 - SMax)..SMax}

\* ---------------------------------------------------------------- inputs
\* One input line "px, py, pz @ vx, vy, vz": the six integers as written.
Line(p, d) == [s |-> p, d |-> d]

L(px, py, pz, vx, vy, vz) == Line(<<I(px), I(py), I(pz)>>, <<I(vx), I(vy), I(vz)>>)

\* A line whose position is (2^53 + kx, 2^53 + ky, 2^53 + kz).
LBig(kx, ky, kz, vx, vy, vz) ==
    Line(<<Num(1, kx), Num(1, ky), Num(1, kz)>>, <<I(vx), I(vy), I(vz)>>)

Canonical ==
    << L(19, 13, 30, -2, 1, -2),
       L(18, 19, 22, -1, -1, -2),
       L(20, 25, 34, -2, -2, -4),
       L(12, 31, 28, -1, -2, -1),
       L(20, 19, 15, 1, -5, -3) >>

Range(q) == {q[i] : i \in 1..Len(q)}

Rotate(q, r) == [i \in 1..Len(q) |-> q[((i - 1 + r) % Len(q)) + 1]]

\* the canonical file, its first n lines, and the same lines in another order
CanonicalInputs ==
    {SubSeq(Canonical, 1, n) : n \in 0..5}
        \cup {Rotate(Canonical, r) : r \in 1..4}
        \cup {SubSeq(Rotate(Canonical, r), 1, 4) : r \in 1..4}

\* files whose hailstones all have one velocity
SameVelocityInputs ==
    { << L(0, 0, 0, 1, 1, 1), L(1, 2, 3, 1, 1, 1), L(2, 4, 6, 1, 1, 1) >>,
      << L(0, 0, 0, 1, 1, 1), L(1, 2, 3, 1, 1, 1), L(2, 1, 0, 1, 1, 1) >>,
      << L(0, 0, 0, 1, 1, 1), L(1, 2, 3, 1, 1, 1), L(2, 4, 6, 1, 1, 1),
         L(3, 6, 9, 1, 1, 1) >> }

PairPositionsA == { <<0, 0, 0>>, <<1, 2, 0>> }

PairPositionsB == { <<2, 1, 3>>, <<0, 3, 1>> }

PairVelocitiesA == { <<1, 0, -1>> }

PairVelocitiesB == { <<1, 0, -1>>, <<-1, 1, 0>>, <<0, -1, 2>> }

\* files of two hailstones
PairInputs ==
    { << L(pa[1], pa[2], pa[3], va[1], va[2], va[3]),
         L(pb[1], pb[2], pb[3], vb[1], vb[2], vb[3]) >> :
        pa \in PairPositionsA, va \in PairVelocitiesA,
        pb \in PairPositionsB, vb \in PairVelocitiesB }

\* files with a position at or above 2^53
BigInputs ==
    { << LBig(1, 3, 2, 1, -1, 0) >>,
      << LBig(1, 0, 4, 1, 0, 0), LBig(3, 0, 4, 0, 0, 0) >>,
      << LBig(1, 2, 0, 2, 0, 1), LBig(5, 2, 0, 0, 0, 1) >> }

\* files of four hailstones that all meet the line (2, -1, 3) + t*(1, 0, -1)
OtherLineInputs ==
    { << L(-3, -11, 8, 2, 2, -2), L(6, -5, 1, -1, 2, 0),
         L(5, 5, 6, 0, -2, -2), L(2, -5, 7, 1, 1, -2) >>,
      << L(11, -1, -3, -2, 0, 1), L(2, 1, 4, 1, -2, -2),
         L(-2, -9, 7, 2, 2, -2), L(2, -11, -2, 1, 2, 0) >>,
      << L(1, -2, 4, 2, 1, -2), L(-1, -4, 6, 2, 1, -2),
         L(6, -5, -1, 0, 1, 0), L(2, -6, -7, 1, 1, 1) >> }

Inputs ==
    CanonicalInputs \cup SameVelocityInputs \cup PairInputs \cup BigInputs
        \cup OtherLineInputs

\* ---------------------------------------------------------------- state
VARIABLES
    lines,      \* the input file: one Line per text line
    data,       \* the module's list of H objects (lines 49-56)
    s,          \* Symbols.s: the keys of the symbol table, in insertion order
    _h,         \* Symbols._h
    calls,      \* how many times add_all has been called on the instance
    equations,  \* solve's local list of equations
    v,          \* solve's local list of unknowns handed to sympy.solve
    result,     \* what s.solve() produced
    out,        \* what lines 68-69 print
    pc          \* position in the script

vars == <<lines, data, s, _h, calls, equations, v, result, out, pc>>

Axes == <<"x", "y", "z">>

TargetNames == <<"sx", "sy", "sz", "dx", "dy", "dz">>

NoResult == [kind |-> "none", vals |-> <<>>]

NoOutput == [place |-> <<>>, sum |-> Zero, printed |-> FALSE]

\* class H
H(p, d) == [s |-> p, d |-> d]

\* lines 52-56: split the line and convert every token with float
ParseLine(l) ==
    H([i \in 1..3 |-> Float(l.s[i])], [i \in 1..3 |-> Float(l.d[i])])

ParseFile(ls) == [i \in 1..Len(ls) |-> ParseLine(ls[i])]

\* dict assignment d[name] = ...: a new key goes last, a present key stays
DictSet(keys, name) ==
    IF name \in Range(keys) THEN keys ELSE Append(keys, name)

TName(idx) == "t" \o ToString(idx)

\* Symbols._add_for_h
AddForH(keys, h, idx) == DictSet(keys, TName(idx))

\* Symbols.add_all: idx restarts at 0 on every call
RECURSIVE AddAllLoop(_, _, _, _)
AddAllLoop(keys, hs, h, k) ==
    IF k > Len(h) THEN [s |-> keys, _h |-> hs]
    ELSE AddAllLoop(AddForH(keys, h[k], k - 1), Append(hs, h[k]), h, k + 1)

AddAllOf(keys, hs, h) == AddAllLoop(keys, hs, h, 1)

\* ---------------------------------------------------------------- solve
\* Equation with the position read on the x axis for every axis
EquationXPosition(h, i, vi) ==
    [ c  |-> h.s[1],
      m  |-> h.d[vi],
      t  |-> TName(i),
      sp |-> "s" \o Axes[vi],
      dp |-> "d" \o Axes[vi] ]

\* lines 34-37: the expression appended for hailstone i (0-based) and axis vi,
\*     h.s[vi] + h.d[vi]*self.s[f"t{i}"] - self.s[f"s{p}"] - self.s[f"d{p}"]*self.s[f"t{i}"]
\* kept as its two known numbers and the three symbols it looks up.
Equation(h, i, vi) ==
    [ c  |-> h.s[vi],
      m  |-> h.d[vi],
      t  |-> TName(i),
      sp |-> "s" \o Axes[vi],
      dp |-> "d" \o Axes[vi] ]

\* Equations with the loop stopping one hailstone short
EquationsButLast(hs) ==
    [e \in 1..(3 * (Len(hs) - 1)) |->
        Equation(hs[((e - 1) \div 3) + 1], (e - 1) \div 3, ((e - 1) % 3) + 1)]

\* lines 31-37: one expression per hailstone of _h and per axis, in that order
Equations(hs) ==
    [e \in 1..(3 * Len(hs)) |->
        Equation(hs[((e - 1) \div 3) + 1], (e - 1) \div 3, ((e - 1) % 3) + 1)]

\* the symbols an expression looks up in self.s
SymbolsOf(eq) == {eq.t, eq.sp, eq.dp}

\* self.s[name] raises KeyError for a name that was never registered
RaisesKeyError(keys, hs) ==
    \E eq \in Range(Equations(hs)) : ~(SymbolsOf(eq) \subseteq Range(keys))

\* Unknowns without the time symbols
UnknownsTargetsOnly(keys) == SubSeq(keys, 1, 6)

\* Unknowns with the velocity symbols listed before the position symbols
UnknownsVelocityFirst(keys) ==
    <<"dx", "dy", "dz", "sx", "sy", "sz">> \o SubSeq(keys, 7, Len(keys))

\* line 42
Unknowns(keys) == keys

\* the value of an expression when its time symbol is t and its other symbols
\* are as env gives them
ResidualAt(eq, env, t) ==
    NumSub(NumSub(NumAdd(eq.c, NumMul(eq.m, t)), env[eq.sp]),
           NumMul(env[eq.dp], t))

\* the value of an expression under an assignment of numbers to symbols
Residual(eq, env) == ResidualAt(eq, env, env[eq.t])

Satisfies(env, eqs, which) == \A e \in which : Residual(eqs[e], env) = Zero

InSDomain(x) == x.big \in {0, 1} /\ x.lo \in (0 - SMax)..SMax

\* the first expression that uses symbols sp and pivot (0 when there is none)
FirstOn(eqs, pivot, sp) ==
    LET on == {e \in 1..Len(eqs) : eqs[e].sp = sp /\ eqs[e].t = pivot}
    IN  IF on = {} THEN 0 ELSE CHOOSE e \in on : \A f \in on : e <= f

\* the values of the position symbol of expression e that make it zero
PositionsFor(eqs, e, d, t0) ==
    IF e = 0 THEN SDomain
    ELSE {x \in {NumSub(NumAdd(eqs[e].c, NumMul(eqs[e].m, t0)), NumMul(d, t0))} :
             InSDomain(x)}

\* the assignments to the target symbols and the pivot time, for directions d
\* and pivot time t0, that make the expressions ex, ey, ez zero
BaseAssignments(eqs, pivot, ex, ey, ez, d, t0) ==
    { ("sx" :> x) @@ ("sy" :> y) @@ ("sz" :> z) @@ (pivot :> t0) @@ d :
        x \in PositionsFor(eqs, ex, d["dx"], t0),
        y \in PositionsFor(eqs, ey, d["dy"], t0),
        z \in PositionsFor(eqs, ez, d["dz"], t0) }

\* the expressions whose time symbol is k
Using(eqs, k) == {e \in 1..Len(eqs) : eqs[e].t = k}

\* the extensions of the assignments envs to the time symbols ks that make the
\* expressions of those symbols zero
RECURSIVE FitTimes(_, _, _)
FitTimes(envs, eqs, ks) ==
    IF ks = <<>> THEN envs
    ELSE LET k    == ks[1]
             mine == Using(eqs, k)
             fit(env) == {t \in TDomain :
                             \A e \in mine : ResidualAt(eqs[e], env, t) = Zero}
         IN  FitTimes(UNION {{(k :> t) @@ env : t \in fit(env)} : env \in envs},
                      eqs, Tail(ks))

\* the elements of q that are in keep, in the order of q
SelectSeq2(q, keep) ==
    LET F[i \in 0..Len(q)] ==
            IF i = 0 THEN <<>>
            ELSE IF q[i] \in keep THEN Append(F[i - 1], q[i]) ELSE F[i - 1]
    IN  F[Len(q)]

\* sympy.solve(equations, v) (line 43; Floats are recast as rationals, so the
\* solve is exact): the assignments to the unknowns that make every expression
\* zero. An empty list of expressions gives []. A system with infinitely many
\* solutions gives a parametric tuple, which stands here for any of its
\* instances. The set is built without enumerating every assignment: directions
\* and the time of the first expression (the pivot) are enumerated, a position
\* component is read off the first expression on its axis that uses the pivot,
\* and the other times are then fitted one symbol after the other.
SympySolve(eqs, unknowns) ==
    IF Len(eqs) = 0 THEN {}
    ELSE LET pivot == eqs[1].t
             ex    == FirstOn(eqs, pivot, "sx")
             ey    == FirstOn(eqs, pivot, "sy")
             ez    == FirstOn(eqs, pivot, "sz")
             first == Using(eqs, pivot)
             rest  == SelectSeq2(unknowns,
                                 Range(unknowns) \ (Range(TargetNames) \cup {pivot}))
         IN  UNION { FitTimes({env \in BaseAssignments(eqs, pivot, ex, ey, ez, d, t0) :
                                  Satisfies(env, eqs, first)},
                              eqs, rest) :
                       d \in [{"dx", "dy", "dz"} -> DDomain], t0 \in TDomain }

\* the tuple sympy returns lists the unknowns in the order of v
TupleOf(env, unknowns) == [i \in 1..Len(unknowns) |-> env[unknowns[i]]]

\* ---------------------------------------------------------------- actions
Init ==
    /\ lines \in Inputs
    /\ data = <<>>
    /\ s = <<>>
    /\ _h = <<>>
    /\ calls = 0
    /\ equations = <<>>
    /\ v = <<>>
    /\ result = NoResult
    /\ out = NoOutput
    /\ pc = "read"

\* lines 49-56: read the file into data
ReadData ==
    /\ pc = "read"
    /\ data' = ParseFile(lines)
    /\ pc' = "new"
    /\ UNCHANGED <<lines, s, _h, calls, equations, v, result, out>>

\* line 62, Symbols.__init__ (lines 14-18)
NewSymbols ==
    /\ pc = "new"
    /\ s' = TargetNames
    /\ _h' = <<>>
    /\ pc' = "add"
    /\ UNCHANGED <<lines, data, calls, equations, v, result, out>>

\* Symbols.add_all(h) on the instance
AddAllWith(h) ==
    /\ s' = AddAllOf(s, _h, h).s
    /\ _h' = AddAllOf(s, _h, h)._h
    /\ calls' = calls + 1
    /\ pc' = "solve"
    /\ UNCHANGED <<lines, data, equations, v, result, out>>

\* line 63: the script calls add_all once, with the whole file
AddAll ==
    /\ pc = "add"
    /\ AddAllWith(data)

\* Symbols.solve (lines 28-43), called at line 66
Solve ==
    /\ pc = "solve"
    /\ IF RaisesKeyError(s, _h)
       THEN /\ result' = [kind |-> "KeyError", vals |-> <<>>]
            /\ pc' = "failed"
            /\ UNCHANGED <<equations, v>>
       ELSE /\ equations' = Equations(_h)
            /\ v' = Unknowns(s)
            /\ LET sols == SympySolve(Equations(_h), Unknowns(s))
               IN  IF sols = {}
                   THEN /\ result' = [kind |-> "IndexError", vals |-> <<>>]
                        /\ pc' = "failed"
                   ELSE /\ \E env \in sols :
                               result' = [kind |-> "solution",
                                          vals |-> TupleOf(env, Unknowns(s))]
                        /\ pc' = "report"
    /\ UNCHANGED <<lines, data, s, _h, calls, out>>

\* lines 68-69
PositionSum(r) == NumAdd(NumAdd(r[1], r[2]), r[3])

Report ==
    /\ pc = "report"
    /\ out' = [place |-> SubSeq(result.vals, 1, 6),
               sum |-> PositionSum(result.vals),
               printed |-> TRUE]
    /\ pc' = "done"
    /\ UNCHANGED <<lines, data, s, _h, calls, equations, v, result>>

Next == ReadData \/ NewSymbols \/ AddAll \/ Solve \/ Report

Spec == Init /\ [][Next]_vars

\* ---------------------------------------------------------------- the class
\* Symbols used as a class: a caller that feeds the hailstones to one instance
\* in any number of add_all calls (up to MaxCalls) before calling solve.
MaxCalls == 2

ApiInputs ==
    { SubSeq(Canonical, 1, 3),
      << L(0, 0, 0, 1, 1, 1), L(1, 2, 3, 1, 1, 1) >> }

\* the contiguous slices of the parsed file
Chunks(d) == {SubSeq(d, a, b) : a \in 1..(Len(d) + 1), b \in 0..Len(d)}

InitApi ==
    /\ lines \in ApiInputs
    /\ data = <<>>
    /\ s = <<>>
    /\ _h = <<>>
    /\ calls = 0
    /\ equations = <<>>
    /\ v = <<>>
    /\ result = NoResult
    /\ out = NoOutput
    /\ pc = "read"

AddAllCall ==
    /\ pc \in {"add", "solve"}
    /\ calls < MaxCalls
    /\ \E h \in Chunks(data) : AddAllWith(h)

NextApi == ReadData \/ NewSymbols \/ AddAllCall \/ Solve \/ Report

SpecApi == InitApi /\ [][NextApi]_vars

\* ---------------------------------------------------------------- reading a result
Returned == pc \in {"report", "done"}

Ended == pc \in {"report", "done", "failed"}

\* the solved target position, target velocity and the time of hailstone i
\* (1-based) in the tuple solve returned
TargetS == [a \in 1..3 |-> result.vals[a]]

TargetD == [a \in 1..3 |-> result.vals[3 + a]]

TimeOf(i) == result.vals[6 + i]

\* the returned tuple as an assignment to the unknowns it was solved for
ResultEnv ==
    [n \in Range(v) |-> result.vals[CHOOSE i \in 1..Len(v) : v[i] = n]]

\* ---------------------------------------------------------------- C1
\* C1: for the canonical file of five hailstones solve returns a solution, its
\* first six components are the position (24, 13, 10) and the velocity
\* (-3, 1, 2), and the reported sum of the first three components is 47.
C1_CanonicalAnswer ==
    lines = Canonical =>
        /\ pc # "failed"
        /\ Returned => SubSeq(result.vals, 1, 6) =
                           <<I(24), I(13), I(10), I(-3), I(1), I(2)>>
        /\ pc = "done" => /\ out.place = <<I(24), I(13), I(10), I(-3), I(1), I(2)>>
                          /\ out.sum = I(47)

C1_Witness == lines = Canonical /\ pc = "done" /\ out.printed

AxisPairs == { <<1, 2>>, <<2, 3>>, <<1, 3>> }

\* PairEliminator with B's velocity read on axis u in the coefficient of Su
PairEliminatorSwapped(A, B, u, w) ==
    [ su  |-> NumSub(B.d[u], A.d[w]),
      sv  |-> NumNeg(NumSub(B.d[u], A.d[u])),
      dv  |-> NumSub(A.s[u], B.s[u]),
      du  |-> NumNeg(NumSub(A.s[w], B.s[w])),
      rhs |-> NumAdd(NumSub(NumSub(NumMul(A.s[u], A.d[w]), NumMul(A.s[w], A.d[u])),
                            NumMul(B.s[u], B.d[w])),
                     NumMul(B.s[w], B.d[u])) ]

\* The equation of the design's pair eliminator for hailstones A, B and axes
\* (u, v), as the design writes it:
\*   (Bdv - Adv)*Su - (Bdu - Adu)*Sv + (Asu - Bsu)*Dv - (Asv - Bsv)*Du
\*       = Asu*Adv - Asv*Adu - Bsu*Bdv + Bsv*Bdu
\* kept as the coefficients of Su, Sv, Dv, Du and the right-hand side.
PairEliminator(A, B, u, w) ==
    [ su  |-> NumSub(B.d[w], A.d[w]),
      sv  |-> NumNeg(NumSub(B.d[u], A.d[u])),
      dv  |-> NumSub(A.s[u], B.s[u]),
      du  |-> NumNeg(NumSub(A.s[w], B.s[w])),
      rhs |-> NumAdd(NumSub(NumSub(NumMul(A.s[u], A.d[w]), NumMul(A.s[w], A.d[u])),
                            NumMul(B.s[u], B.d[w])),
                     NumMul(B.s[w], B.d[u])) ]

\* The same equation with the two position coefficients negated:
\*   (Adv - Bdv)*Su - (Adu - Bdu)*Sv + (Asu - Bsu)*Dv - (Asv - Bsv)*Du
\*       = Asu*Adv - Asv*Adu - Bsu*Bdv + Bsv*Bdu
Eliminated(A, B, u, w) ==
    [ su  |-> NumSub(A.d[w], B.d[w]),
      sv  |-> NumNeg(NumSub(A.d[u], B.d[u])),
      dv  |-> PairEliminator(A, B, u, w).dv,
      du  |-> PairEliminator(A, B, u, w).du,
      rhs |-> PairEliminator(A, B, u, w).rhs ]

\* whether the target line (S, D) satisfies a linear equation on axes (u, v)
HoldsFor(c, S, D, u, w) ==
    NumAdd(NumAdd(NumMul(c.su, S[u]), NumMul(c.sv, S[w])),
           NumAdd(NumMul(c.dv, D[w]), NumMul(c.du, D[u]))) = c.rhs

\* the returned line meets hailstone i of _h on axis a: the expression the code
\* builds for (i, a) is zero under the returned tuple
MeetsOn(env, i, a) == Residual(Equation(_h[i], i - 1, a), env) = Zero

MeetsBoth(env, i, j, u, w) ==
    MeetsOn(env, i, u) /\ MeetsOn(env, i, w) /\ MeetsOn(env, j, u) /\ MeetsOn(env, j, w)

\* ---------------------------------------------------------------- C3
\* C3 as claimed: every target line that meets hailstones A and B on axes u and
\* v (times tA, tB make the code's meeting expressions zero) satisfies the
\* design's linear equation for (A, B, (u, v)).
C3_AsClaimed ==
    Returned =>
        \A i \in 1..Len(_h) : \A j \in 1..Len(_h) : \A ax \in AxisPairs :
            MeetsBoth(ResultEnv, i, j, ax[1], ax[2]) =>
                HoldsFor(PairEliminator(_h[i], _h[j], ax[1], ax[2]),
                         TargetS, TargetD, ax[1], ax[2])

\* C3 as amended: every target line that meets hailstones A and B on axes u and
\* v satisfies the linear equation
\*   (Adv - Bdv)*Su - (Adu - Bdu)*Sv + (Asu - Bsu)*Dv - (Asv - Bsv)*Du
\*       = Asu*Adv - Asv*Adu - Bsu*Bdv + Bsv*Bdu,
\* in which no unknown time appears.
C3_Elimination ==
    Returned =>
        \A i \in 1..Len(_h) : \A j \in 1..Len(_h) : \A ax \in AxisPairs :
            MeetsBoth(ResultEnv, i, j, ax[1], ax[2]) =>
                HoldsFor(Eliminated(_h[i], _h[j], ax[1], ax[2]),
                         TargetS, TargetD, ax[1], ax[2])

C3_Witness ==
    /\ Returned
    /\ Len(_h) = 2
    /\ \A ax \in AxisPairs : MeetsBoth(ResultEnv, 1, 2, ax[1], ax[2])
    /\ \E ax \in AxisPairs :
           Eliminated(_h[1], _h[2], ax[1], ax[2]).su # Zero
               /\ TargetS[ax[1]] # Zero

\* ---------------------------------------------------------------- C9
SameVelocityOn(A, B, u, w) == A.d[u] = B.d[u] /\ A.d[w] = B.d[w]

SamePositionOn(A, B, u, w) == A.s[u] = B.s[u] /\ A.s[w] = B.s[w]

\* C9 as claimed: two hailstones with the same velocity on axes u and v give an
\* eliminated equation whose four left-hand coefficients are all zero.
C9_AsClaimed ==
    pc # "read" =>
        \A i \in 1..Len(data) : \A j \in 1..Len(data) : \A ax \in AxisPairs :
            SameVelocityOn(data[i], data[j], ax[1], ax[2]) =>
                LET c == PairEliminator(data[i], data[j], ax[1], ax[2])
                IN  c.su = Zero /\ c.sv = Zero /\ c.dv = Zero /\ c.du = Zero

\* C9 as amended: two hailstones with the same velocity on axes u and v give an
\* eliminated equation whose coefficients of Su and Sv are zero; its
\* coefficients of Dv and Du are the position differences Asu - Bsu and
\* -(Asv - Bsv), zero exactly when the positions agree on u and v.
C9_PositionCoefficientsZero ==
    pc # "read" =>
        \A i \in 1..Len(data) : \A j \in 1..Len(data) : \A ax \in AxisPairs :
            SameVelocityOn(data[i], data[j], ax[1], ax[2]) =>
                LET c == PairEliminator(data[i], data[j], ax[1], ax[2])
                IN  /\ c.su = Zero
                    /\ c.sv = Zero
                    /\ (c.dv = Zero /\ c.du = Zero)
                           <=> SamePositionOn(data[i], data[j], ax[1], ax[2])

C9_Witness ==
    /\ pc # "read"
    /\ \E i \in 1..Len(data) : \E j \in 1..Len(data) : \E ax \in AxisPairs :
           /\ SameVelocityOn(data[i], data[j], ax[1], ax[2])
           /\ ~SamePositionOn(data[i], data[j], ax[1], ax[2])
           /\ data[i].d[ax[1]] # data[i].d[ax[2]]

\* ---------------------------------------------------------------- C4
\* at least one hailstone, and every hailstone has the velocity of the first
AllSameVelocity(ls) == Len(ls) >= 1 /\ \A i \in 1..Len(ls) : ls[i].d = ls[1].d

\* C4: for a file whose hailstones all share one velocity vector, solve ends in
\* a DegenerateSystem or InsufficientData failure and returns no answer.
C4_SameVelocityRejected ==
    (AllSameVelocity(lines) /\ Ended) =>
        /\ result.kind \in {"DegenerateSystem", "InsufficientData"}
        /\ ~out.printed

\* ---------------------------------------------------------------- C5
\* C5: for a file of fewer than 3 hailstones solve is rejected with
\* InsufficientData before any system is solved, and no answer is produced.
C5_TooFewRejected ==
    (Len(lines) < 3 /\ Ended) =>
        /\ result.kind = "InsufficientData"
        /\ v = <<>>
        /\ ~out.printed

\* ---------------------------------------------------------------- C6
\* a system was handed to sympy.solve
Handed == v # <<>>

C8_ParsedExactly ==
    pc # "read" =>
        /\ Len(data) = Len(lines)
        /\ \A i \in 1..Len(data) : \A a \in 1..3 :
               data[i].s[a] = lines[i].s[a] /\ data[i].d[a] = lines[i].d[a]

\* ---------------------------------------------------------------- C10
\* C10: after any sequence of add_all calls every hailstone stored at index i
\* of _h has its own time symbol t{i} in the symbol table, so solve never looks
\* up a missing time symbol.
C10_EveryHailstoneHasItsTime ==
    /\ pc \in {"solve", "report", "done", "failed"} =>
           \A i \in 1..Len(_h) : TName(i - 1) \in Range(s)
    /\ result.kind # "KeyError"

\* ---------------------------------------------------------------- exact rationals
RECURSIVE Gcd(_, _)
Gcd(a, b) == IF b = 0 THEN a ELSE Gcd(b, a % b)

Abs(n) == IF n < 0 THEN 0 - n ELSE n

\* a fraction in lowest terms with a positive denominator
Rat(n, d) ==
    LET g == Gcd(Abs(n), Abs(d))
    IN  IF d < 0 THEN [n |-> (0 - n) \div g, d |-> (0 - d) \div g]
        ELSE [n |-> n \div g, d |-> d \div g]

RZero == Rat(0, 1)

RSub(a, b) == Rat(a.n * b.d - b.n * a.d, a.d * b.d)

RMul(a, b) == Rat(a.n * b.n, a.d * b.d)

RDiv(a, b) == Rat(a.n * b.d, a.d * b.n)

\* ---------------------------------------------------------------- linear solver
\* The design's exact Gaussian solver: elimination over the rationals with the
\* first non-zero entry of each column as pivot; DegenerateSystem when a column
\* has no pivot (rank below 6), InconsistentSystem when a row past the sixth is
\* left with a non-zero constant.
RECURSIVE Eliminate(_, _)
Eliminate(M, col) ==
    IF col > 6
    THEN IF \E r \in 7..Len(M) : M[r][7] # RZero
         THEN [kind |-> "InconsistentSystem", vals |-> <<>>]
         ELSE [kind |-> "solution", vals |-> [i \in 1..6 |-> M[i][7]]]
    ELSE LET rows == {r \in col..Len(M) : M[r][col] # RZero}
         IN  IF rows = {}
             THEN [kind |-> "DegenerateSystem", vals |-> <<>>]
             ELSE LET p    == CHOOSE r \in rows : \A q \in rows : r <= q
                      S1   == [r \in 1..Len(M) |->
                                  IF r = col THEN M[p] ELSE IF r = p THEN M[col] ELSE M[r]]
                      prow == [k \in 1..7 |-> RDiv(S1[col][k], S1[col][col])]
                      M2   == [r \in 1..Len(M) |->
                                  IF r = col THEN prow
                                  ELSE [k \in 1..7 |->
                                           RSub(S1[r][k], RMul(S1[r][col], prow[k]))]]
                  IN  Eliminate(M2, col + 1)

GaussianSolve(M) == Eliminate(M, 1)

\* a linear equation on axes (u, w) as a row over (sx, sy, sz, dx, dy, dz | rhs)
RowOf(c, u, w) ==
    [k \in 1..7 |->
        IF k = u THEN Rat(c.su.lo, 1)
        ELSE IF k = w THEN Rat(c.sv.lo, 1)
        ELSE IF k = 3 + w THEN Rat(c.dv.lo, 1)
        ELSE IF k = 3 + u THEN Rat(c.du.lo, 1)
        ELSE IF k = 7 THEN Rat(c.rhs.lo, 1)
        ELSE RZero]

AxisPairOrder == << <<1, 2>>, <<2, 3>>, <<1, 3>> >>

AxisPairOf(r) == AxisPairOrder[((r - 1) % 3) + 1]

\* six linear equations, three axis pairs for each of two hailstone pairs, as
\* the rows of a linear system
SixRows(cs) == [r \in 1..6 |-> RowOf(cs[r], AxisPairOf(r)[1], AxisPairOf(r)[2])]

\* the system of the design for hailstone pairs (a, b) and (c, d) of hs
\* (1-based): the three eliminated equations of (a, b), then those of (c, d)
SystemOf(hs, a, b, c, d) ==
    SixRows([r \in 1..6 |->
                IF r <= 3
                THEN PairEliminator(hs[a], hs[b], AxisPairOf(r)[1], AxisPairOf(r)[2])
                ELSE PairEliminator(hs[c], hs[d], AxisPairOf(r)[1], AxisPairOf(r)[2])])

\* the same system built from the equations with negated position coefficients
AmendedSystemOf(hs, a, b, c, d) ==
    SixRows([r \in 1..6 |->
                IF r <= 3
                THEN Eliminated(hs[a], hs[b], AxisPairOf(r)[1], AxisPairOf(r)[2])
                ELSE Eliminated(hs[c], hs[d], AxisPairOf(r)[1], AxisPairOf(r)[2])])

\* every number of the hailstones is below 2^53 in magnitude
AllSmall(hs) ==
    \A i \in 1..Len(hs) : \A a \in 1..3 : hs[i].s[a].big = 0 /\ hs[i].d[a].big = 0

\* the first six components of the tuple solve returned, as rationals
CodeSolution == [k \in 1..6 |-> Rat(result.vals[k].lo, 1)]

\* ---------------------------------------------------------------- C7
\* C7 as claimed: for at least 4 hailstones on one common line, the systems of
\* the design's eliminated equations for pairs (0,1),(0,2) and for pairs
\* (1,2),(1,3), when both have rank 6, have the same solution, and it is the
\* solution of the per-hailstone system the code solves.
C7_AsClaimed ==
    (Returned /\ Len(_h) >= 4 /\ AllSmall(_h)) =>
        LET first  == GaussianSolve(SystemOf(_h, 1, 2, 1, 3))
            second == GaussianSolve(SystemOf(_h, 2, 3, 2, 4))
        IN  (first.kind = "solution" /\ second.kind = "solution") =>
                first.vals = second.vals /\ first.vals = CodeSolution

\* C7 as amended: the same statement for the eliminated equations with the
\* position coefficients (Adv - Bdv) and -(Adu - Bdu) of the amended C3.
C7_PairChoiceInvariance ==
    (Returned /\ Len(_h) >= 4 /\ AllSmall(_h)) =>
        LET first  == GaussianSolve(AmendedSystemOf(_h, 1, 2, 1, 3))
            second == GaussianSolve(AmendedSystemOf(_h, 2, 3, 2, 4))
        IN  (first.kind = "solution" /\ second.kind = "solution") =>
                first.vals = second.vals /\ first.vals = CodeSolution

C7_Witness ==
    /\ Returned
    /\ Len(_h) >= 4
    /\ AllSmall(_h)
    /\ GaussianSolve(AmendedSystemOf(_h, 1, 2, 1, 3)).kind = "solution"
    /\ GaussianSolve(AmendedSystemOf(_h, 2, 3, 2, 4)).kind = "solution"
    /\ lines \in OtherLineInputs

====
